---- MODULE Spec2Model ----
(***************************************************************************)
(* Model of contingent/step05_incremental/core.py: the change-aware cache  *)
(* store (CacheFile), the task protocol (Task) and the task-list drain of  *)
(* BuildContext.                                                           *)
(***************************************************************************)
EXTENDS Integers, Sequences, FiniteSets, TLC

\* ------------------------------------------------------------------ bounds
\* largest reading of the wall clock
MaxClock == 2
\* number of distinct task objects
NumTasks == 2
\* add_compile_task / add_link_task calls in one build (caller and tasks)
MaxAdds == 3
\* largest file modification time
MaxStamp == 6
\* items (html, toctree entries, dependencies) a task puts in its record
MaxItems == 1
\* builds made one after the other on the same base directory
MaxBuilds == 2
\* AstNode objects of a document tree, the AstDoc included
MaxNodes == 4

\* ------------------------------------------------------------------ values
\* Python's None
None == "None"
\* payloads handed to the cache: None and two distinct values
Values == {None, "v1", "v2"}
\* document names
Names == {"doc1"}
\* input kinds the callers write
Kinds == {"title"}
\* keys of the input namespace: (kind, name)
InputKeys == Kinds \X Names
Tasks == 1..NumTasks
\* an optional timestamp: None is the empty sequence, a timestamp t is <<t>>
NoStamp == <<>>
Stamps == {NoStamp} \cup {<<t>> : t \in 0..MaxStamp}

VARIABLES
    _data,            \* CacheFile._data: 'output' and 'input' dicts of (value, timestamp)
    clock,            \* the reading datetime.now() returns
    last,             \* the latest set_output/set_input call: arguments, return, entry before
    compile_tasks,    \* BuildContext.compile_tasks
    link_tasks,       \* BuildContext.link_tasks
    executed_tasks,   \* BuildContext.executed_tasks
    pc,               \* position of the build: idle, compile, link, done, failed
    snapshot,         \* the rest of task_list[:] the for loop of run_tasks still visits
    pass,             \* number of the current pass of the while loop of run_tasks
    evals,            \* history: one record per Task.exec call
    adds,             \* history: one record per add_compile_task / add_link_task call
    pass_list,        \* history: the list as it was when the current pass began
    input_timestamp,  \* argument of is_outdated_timestamp
    output_timestamp, \* argument of is_outdated_timestamp
    stale,            \* result of is_outdated_timestamp, a one-element sequence once called
    code,             \* the Code record a task fills: name, title, html, toctree, dependencies
    file,             \* the content of the cache file at CacheFile.path
    op,               \* history: the latest call on the record or the cache file
    saved,            \* history: the content of the store at the save() that wrote the file
    builds,           \* history: the builds started, with what each found and executed
    nodes,            \* the AstNode objects of a document tree; nodes[1] is the AstDoc
    title_ret         \* what the latest AstDoc.title() returned, a one-element sequence

vars == <<_data, clock, last, compile_tasks, link_tasks, executed_tasks, pc,
          snapshot, pass, evals, adds, pass_list, input_timestamp, output_timestamp, stale,
          code, file, op, saved, builds, nodes, title_ret>>

cacheVars == <<_data, clock, last>>
buildVars == <<compile_tasks, link_tasks, executed_tasks, pc, snapshot, pass, evals, adds,
               pass_list>>
staleVars == <<input_timestamp, output_timestamp, stale>>
storeVars == <<code, file, op, saved>>
incrVars == <<builds>>
astVars == <<nodes, title_ret>>

\* ------------------------------------------------------------------ Code
\* html fragments and toctree entries
Frags == {"h"}
\* the (kind, name) pairs add_dependency is given, in the order they are written out
DepOrder == << <<"doc", "doc2">> >>
Deps == {DepOrder[i] : i \in DOMAIN DepOrder}
\* titles a task assigns to a record
Titles == {None, "T"}

\* Code.__init__, and the name the task gives the record
new_code(name) ==
    [name |-> name, title |-> None, html |-> <<>>, toctree |-> <<>>, dependencies |-> {}]

\* Code.add_html(*args)
add_html(c, args) == [c EXCEPT !.html = @ \o args]

\* Code.add_toctree(*args)
add_toctree(c, args) == [c EXCEPT !.toctree = @ \o args]

\* Code.add_dependency(kind, name)
add_dependency(c, kind, name) == [c EXCEPT !.dependencies = @ \cup {<<kind, name>>}]

\* The cache keeps the objects it is handed, not copies. A payload is written as
\* a string: None or a str as itself, the record's own list and set objects as
\* "@html", "@toctree", "@dependencies", and any other list or set (one that
\* pickle.load built) by its content.
RECURSIVE join(_)
join(l) == IF l = <<>> THEN ""
           ELSE IF Len(l) = 1 THEN l[1]
           ELSE l[1] \o ", " \o join(Tail(l))
\* the content of a list
list_repr(l) == "[" \o join(l) \o "]"
\* the content of a set of (kind, name) pairs
set_repr(S) ==
    LET in == SelectSeq(DepOrder, LAMBDA d : d \in S)
    IN  "{" \o join([i \in DOMAIN in |-> "(" \o in[i][1] \o ", " \o in[i][2] \o ")"]) \o "}"

\* the content of the object a payload stands for, as it is now
Deref(x) ==
    CASE x = "@html" -> list_repr(code.html)
      [] x = "@toctree" -> list_repr(code.toctree)
      [] x = "@dependencies" -> set_repr(code.dependencies)
      [] OTHER -> x

\* Python's ==, on None, str, list and set payloads
py_eq(a, b) == Deref(a) = Deref(b)

\* ------------------------------------------------------------------ CacheFile
\* dict.get(key, default)
dict_get(dic, key, default) == IF key \in DOMAIN dic THEN dic[key] ELSE default

\* dic[key] = item
dict_put(dic, key, item) ==
    [k \in DOMAIN dic \cup {key} |-> IF k = key THEN item ELSE dic[k]]

\* datetime.now()
now == clock

\* a set_value that stores without comparing
set_value_unconditional(dic, key, value) ==
    [ret |-> TRUE, dic |-> dict_put(dic, key, <<value, now>>)]

\* CacheFile.set_value: the return value and the dict afterwards
set_value(dic, key, value) ==
    LET curr_value == dict_get(dic, key, <<None, None>>)[1]
    IN  IF py_eq(curr_value, value)
        THEN [ret |-> FALSE, dic |-> dic]
        ELSE [ret |-> TRUE, dic |-> dict_put(dic, key, <<value, now>>)]

\* the entry stored under key, as a sequence of zero or one entries
Stored(dic, key) == IF key \in DOMAIN dic THEN <<dic[key]>> ELSE <<>>

\* CacheFile.set_output(name, value) on the store d: return value and store afterwards
set_output(d, name, value) ==
    LET r == set_value(d.output, name, value)
    IN  [ret |-> r.ret, data |-> [d EXCEPT !.output = r.dic],
         call |-> [op |-> "set_output", kind |-> None, name |-> name, value |-> value,
                   ret |-> r.ret, old |-> Stored(d.output, name)]]

\* CacheFile.set_input(kind, name, data) on the store d
set_input(d, kind, name, data) ==
    LET key == <<kind, name>>
        r == set_value(d.input, key, data)
    IN  [ret |-> r.ret, data |-> [d EXCEPT !.input = r.dic],
         call |-> [op |-> "set_input", kind |-> kind, name |-> name, value |-> data,
                   ret |-> r.ret, old |-> Stored(d.input, key)]]

\* CacheFile.__init__ with no file at the path
InitCache ==
    /\ _data = [output |-> <<>>, input |-> <<>>]
    /\ clock = 0
    /\ last = [op |-> "none", kind |-> None, name |-> None, value |-> None, ret |-> FALSE, old |-> <<>>]

\* BuildContext.__init__
InitBuild ==
    /\ compile_tasks = <<>>
    /\ link_tasks = <<>>
    /\ executed_tasks = <<>>
    /\ pc = "idle"
    /\ snapshot = <<>>
    /\ pass = 0
    /\ evals = <<>>
    /\ adds = <<>>
    /\ pass_list = <<>>

\* no call of is_outdated_timestamp yet
InitStale ==
    /\ input_timestamp = NoStamp
    /\ output_timestamp = NoStamp
    /\ stale = <<>>

\* a caller writes an output entry
SetOutput ==
    /\ \E name \in Names, value \in Values :
          LET r == set_output(_data, name, value)
          IN  _data' = r.data /\ last' = r.call
    /\ UNCHANGED <<clock, buildVars, staleVars, storeVars, incrVars, astVars>>

\* a caller writes an input entry
SetInput ==
    /\ \E kind \in Kinds, name \in Names, data \in Values :
          LET r == set_input(_data, kind, name, data)
          IN  _data' = r.data /\ last' = r.call
    /\ UNCHANGED <<clock, buildVars, staleVars, storeVars, incrVars, astVars>>

\* the wall clock moves on between two calls
Tick ==
    /\ clock < MaxClock
    /\ clock' = clock + 1
    /\ UNCHANGED <<_data, last, buildVars, staleVars, storeVars, incrVars, astVars>>

\* a task has made a record for its document; no cache file and no build yet
InitStore ==
    /\ code \in {new_code(name) : name \in Names}
    /\ file = [kind |-> "none", obj |-> <<>>]
    /\ op = [name |-> "none", raised |-> "none"]
    /\ saved = <<>>
    /\ builds = <<>>

\* AstDoc(data): a root without children; title() not called yet
InitAst ==
    /\ nodes = << [name |-> "doc", data |-> "d", children |-> <<>>] >>
    /\ title_ret = <<>>

InitC == InitCache /\ InitBuild /\ InitStale /\ InitStore /\ InitAst
NextCache == SetOutput \/ SetInput \/ Tick
SpecCache == InitC /\ [][NextCache]_vars

\* ------------------------------------------------------------------ flush, save, load
\* the store has the two namespaces
Shaped(d) == DOMAIN d = {"output", "input"}

\* CacheFile.get_output(name): KeyError when the name was never written
get_output(d, name) ==
    IF name \in DOMAIN d.output
    THEN [raised |-> FALSE, entry |-> d.output[name]]
    ELSE [raised |-> TRUE, entry |-> <<None, None>>]

\* CacheFile.get_input(kind, name): KeyError when the key was never written
get_input(d, kind, name) ==
    IF <<kind, name>> \in DOMAIN d.input
    THEN [raised |-> FALSE, entry |-> d.input[<<kind, name>>]]
    ELSE [raised |-> TRUE, entry |-> <<None, None>>]

\* BuildContext.get_doc / get_title / get_toctree: the payload of the entry
get_doc(d, name) == LET r == get_input(d, "doc", name) IN [raised |-> r.raised, value |-> r.entry[1]]
get_title(d, name) == LET r == get_input(d, "title", name) IN [raised |-> r.raised, value |-> r.entry[1]]
get_toctree(d, name) == LET r == get_input(d, "toctree", name) IN [raised |-> r.raised, value |-> r.entry[1]]

\* Code.write_cache(cache): the four set calls, each handed the record's own
\* object; on a store without the 'input' namespace the second call raises
write_cache(d, c) ==
    LET r1 == set_output(d, c.name, "@dependencies")
    IN  IF "input" \notin DOMAIN d
        THEN [raised |-> "KeyError", data |-> r1.data, call |-> r1.call, rets |-> <<r1.ret>>]
        ELSE LET r2 == set_input(r1.data, "doc", c.name, "@html")
                 r3 == set_input(r2.data, "title", c.name, c.title)
                 r4 == set_input(r3.data, "toctree", c.name, "@toctree")
             IN  [raised |-> "none", data |-> r4.data, call |-> r4.call,
                  rets |-> <<r1.ret, r2.ret, r3.ret, r4.ret>>]

\* the content of a store: every payload by the content it has now
View(d) ==
    [ns \in DOMAIN d |-> [k \in DOMAIN d[ns] |-> <<Deref(d[ns][k][1]), d[ns][k][2]>>]]

\* pickle.dump: the object written out by value, per namespace the entries
\* (key, payload content, timestamp)
pickle_dump(d) ==
    [ns \in DOMAIN d |-> {<<k, Deref(d[ns][k][1]), d[ns][k][2]>> : k \in DOMAIN d[ns]}]

\* pickle.load: the dicts built again from the entries, with objects of their own
pickle_load(obj) ==
    [ns \in DOMAIN obj |->
        [k \in {e[1] : e \in obj[ns]} |->
            LET e == CHOOSE x \in obj[ns] : x[1] = k IN <<e[2], e[3]>>]]

\* a save that writes the output namespace only
save_output_only(d) == [kind |-> "pickle", obj |-> pickle_dump([output |-> d.output])]

\* CacheFile.save: the file after it
save(d) == [kind |-> "pickle", obj |-> pickle_dump(d)]

\* CacheFile.load on the file f: what open and pickle.load raise, and the store
\* afterwards; whatever object the file holds becomes the store
load(d, f) ==
    CASE f.kind = "none" -> [raised |-> "FileNotFoundError", data |-> d]
      [] f.kind = "garbage" -> [raised |-> "UnpicklingError", data |-> d]
      [] OTHER -> [raised |-> "none", data |-> pickle_load(f.obj)]

\* CacheFile.__init__(path): an empty store, loaded when the file exists; when
\* load raises no store comes into being and the old one stays
cache_file_init(d, f) ==
    LET empty == [output |-> <<>>, input |-> <<>>]
    IN  IF f.kind = "none"
        THEN [raised |-> "none", data |-> empty]
        ELSE LET r == load(empty, f)
             IN  [raised |-> r.raised, data |-> IF r.raised = "none" THEN r.data ELSE d]

\* what a file holds when it was not written by save: bytes that are no pickle,
\* or the pickle of a dict that has no 'input' namespace
ForeignFiles ==
    {[kind |-> "garbage", obj |-> <<>>],
     [kind |-> "pickle", obj |-> pickle_dump([output |-> <<>>])]}

\* how much a task has put in its record
Size(c) == Len(c.html) + Len(c.toctree) + Cardinality(c.dependencies)

\* a task appends html to its record
AddHtml ==
    /\ Size(code) < MaxItems
    /\ \E f \in Frags : code' = add_html(code, <<f>>)
    /\ op' = [name |-> "record", raised |-> "none"]
    /\ UNCHANGED <<file, saved, cacheVars, buildVars, staleVars, incrVars, astVars>>

\* a task appends a toctree entry to its record
AddToctree ==
    /\ Size(code) < MaxItems
    /\ \E f \in Frags : code' = add_toctree(code, <<f>>)
    /\ op' = [name |-> "record", raised |-> "none"]
    /\ UNCHANGED <<file, saved, cacheVars, buildVars, staleVars, incrVars, astVars>>

\* a task records a dependency
AddDependency ==
    /\ Size(code) < MaxItems
    /\ \E d \in Deps \ code.dependencies : code' = add_dependency(code, d[1], d[2])
    /\ op' = [name |-> "record", raised |-> "none"]
    /\ UNCHANGED <<file, saved, cacheVars, buildVars, staleVars, incrVars, astVars>>

\* a task assigns the record's title
SetTitle ==
    /\ code.title = None
    /\ \E t \in Titles \ {None} : code' = [code EXCEPT !.title = t]
    /\ op' = [name |-> "record", raised |-> "none"]
    /\ UNCHANGED <<file, saved, cacheVars, buildVars, staleVars, incrVars, astVars>>

\* a task flushes its record
WriteCache ==
    /\ LET r == write_cache(_data, code)
       IN  /\ _data' = r.data
           /\ op' = [name |-> "write_cache", raised |-> r.raised]
    /\ UNCHANGED <<code, file, saved, clock, last, buildVars, staleVars, incrVars, astVars>>

\* the caller saves the store
Save ==
    /\ file' = save(_data)
    /\ saved' = <<View(_data)>>
    /\ op' = [name |-> "save", raised |-> "none"]
    /\ UNCHANGED <<code, cacheVars, buildVars, staleVars, incrVars, astVars>>

\* the caller calls load() on the store
Load ==
    /\ LET r == load(_data, file)
       IN  /\ _data' = r.data
           /\ op' = [name |-> "load", raised |-> r.raised]
    /\ UNCHANGED <<code, file, saved, clock, last, buildVars, staleVars, incrVars, astVars>>

\* a new process makes a fresh store bound to the path
NewCacheFile ==
    /\ LET r == cache_file_init(_data, file)
       IN  /\ _data' = r.data
           /\ op' = [name |-> "init", raised |-> r.raised]
    /\ UNCHANGED <<code, file, saved, clock, last, buildVars, staleVars, incrVars, astVars>>

\* something else than save writes the file
Damage ==
    /\ \E f \in ForeignFiles : file' = f
    /\ saved' = <<>>
    /\ op' = [name |-> "damage", raised |-> "none"]
    /\ UNCHANGED <<code, cacheVars, buildVars, staleVars, incrVars, astVars>>

NextStore ==
    \/ AddHtml \/ AddToctree \/ AddDependency \/ SetTitle \/ WriteCache
    \/ Save \/ Load \/ NewCacheFile \/ Damage \/ Tick
SpecStore == InitC /\ [][NextStore]_vars

\* ------------------------------------------------------------------ BuildContext
\* the part of the state a task can reach through its context
Ctx == [compile_tasks |-> compile_tasks, link_tasks |-> link_tasks,
        executed_tasks |-> executed_tasks, data |-> _data, last |-> last, adds |-> adds]

\* the list a drain works on
ListOf(s, list) == IF list = "compile" THEN s.compile_tasks ELSE s.link_tasks

\* number of times task occurs in list
Count(list, task) == Cardinality({i \in DOMAIN list : list[i] = task})

\* BuildContext.add_compile_task; adds keeps the history of the calls
add_compile_task(s, task) ==
    [s EXCEPT !.compile_tasks = Append(@, task),
              !.adds = Append(@, [task |-> task, list |-> "compile", phase |-> pc, pass |-> pass])]

\* BuildContext.add_link_task; adds keeps the history of the calls
add_link_task(s, task) ==
    [s EXCEPT !.link_tasks = Append(@, task),
              !.adds = Append(@, [task |-> task, list |-> "link", phase |-> pc, pass |-> pass])]

\* list.remove(x): the list without the first item equal to x
list_remove(list, x) ==
    LET i == CHOOSE k \in DOMAIN list : list[k] = x /\ \A j \in 1..(k - 1) : list[j] # x
    IN  SubSeq(list, 1, i - 1) \o SubSeq(list, i + 1, Len(list))

\* what a task's run() may do through its context: nothing, add a task to a
\* list, write a cache entry, or fail
Effects ==
    [kind : {"none", "raise"}, task : {1}, value : {None}]
    \cup [kind : {"add_compile", "add_link"}, task : Tasks, value : {None}]
    \cup [kind : {"set_output"}, task : {1}, value : {"v1"}]

\* the task objects an add call can be given: one added before, or a new one;
\* task objects are interchangeable, so a new one gets the next number
Addable == {t \in Tasks : t <= Cardinality({adds[i].task : i \in DOMAIN adds}) + 1}

\* the effects run() can choose from in the current state
EffectsNow ==
    {e \in Effects : e.kind \in {"add_compile", "add_link"} =>
                        (Len(adds) < MaxAdds /\ e.task \in Addable)}

\* Task.run of a concrete task: its effect on the context, and whether it raised
Task_run(s, task, eff) ==
    CASE eff.kind = "add_compile" -> [raised |-> FALSE, s |-> add_compile_task(s, eff.task)]
      [] eff.kind = "add_link" -> [raised |-> FALSE, s |-> add_link_task(s, eff.task)]
      [] eff.kind = "set_output" ->
            LET r == set_output(s.data, "doc1", eff.value)
            IN  [raised |-> FALSE, s |-> [s EXCEPT !.data = r.data, !.last = r.call]]
      [] eff.kind = "raise" -> [raised |-> TRUE, s |-> s]
      [] OTHER -> [raised |-> FALSE, s |-> s]

\* an exec that runs the task whatever is_outdated() says
Task_exec_always_runs(s, task, outdated, eff) ==
    LET r == Task_run(s, task, eff)
    IN  [raised |-> r.raised, ret |-> outdated, ran |-> TRUE, s |-> r.s]

\* Task.exec: outdated is what is_outdated() returns; ret is exec's return value
\* (when it does not raise), ran whether run() was invoked
Task_exec(s, task, outdated, eff) ==
    IF outdated
    THEN LET r == Task_run(s, task, eff)
         IN  [raised |-> r.raised, ret |-> TRUE, ran |-> TRUE, s |-> r.s]
    ELSE [raised |-> FALSE, ret |-> FALSE, ran |-> FALSE, s |-> s]

\* task_list.remove(task) guarded by `if task_list`; ValueError when task is not in it
remove_done(x, list, task) ==
    LET live == ListOf(x.s, list)
    IN  IF live = <<>> THEN x
        ELSE IF Count(live, task) = 0 THEN [x EXCEPT !.raised = TRUE]
        ELSE IF list = "compile"
             THEN [x EXCEPT !.s.compile_tasks = list_remove(live, task)]
             ELSE [x EXCEPT !.s.link_tasks = list_remove(live, task)]

\* a run_task that records every task, executed or skipped
run_task_appends_always(s, list, task, outdated, eff) ==
    LET x == Task_exec(s, task, outdated, eff)
    IN  IF x.raised THEN x
        ELSE remove_done([x EXCEPT !.s.executed_tasks = Append(@, task)], list, task)

\* a run_task that removes only the tasks that were executed
run_task_keeps_skipped(s, list, task, outdated, eff) ==
    LET x == Task_exec(s, task, outdated, eff)
    IN  IF x.raised THEN x
        ELSE IF x.ret
             THEN remove_done([x EXCEPT !.s.executed_tasks = Append(@, task)], list, task)
             ELSE x

\* a run_task that records the task before exec has returned
run_task_records_failed(s, list, task, outdated, eff) ==
    LET x == Task_exec(s, task, outdated, eff)
        y == IF outdated THEN [x EXCEPT !.s.executed_tasks = Append(@, task)] ELSE x
    IN  IF x.raised THEN y ELSE remove_done(y, list, task)

\* BuildContext.run_task(task_list, task): an exception of exec leaves the method
\* before the append and the remove
run_task(s, list, task, outdated, eff) ==
    LET x == Task_exec(s, task, outdated, eff)
    IN  IF x.raised THEN x
        ELSE IF x.ret
             THEN remove_done([x EXCEPT !.s.executed_tasks = Append(@, task)], list, task)
             ELSE remove_done(x, list, task)

\* a for loop over the live list itself: after the removal the iterator's index
\* has moved past the item that took the removed one's place
for_next_live(rest, live) == IF live = <<>> THEN <<>> ELSE Tail(live)

\* `for task in task_list[:]`: the items still to visit after one iteration, given
\* the rest of the copy and the live list
for_next(rest, live) == Tail(rest)

\* a drain that makes one pass only
loop_once(task_list, passes) == task_list # <<>> /\ passes = 0

\* `while task_list:` of run_tasks, evaluated after `passes` passes
loop_again(task_list, passes) == task_list # <<>>

\* the top-level build: the compile list, then the link list
next_phase(phase) == IF phase = "compile" THEN "link" ELSE "done"

\* the caller queues a compile task before the build
AddCompileTask ==
    /\ pc = "idle"
    /\ Len(adds) < MaxAdds
    /\ \E task \in Addable :
          LET s == add_compile_task(Ctx, task)
          IN  compile_tasks' = s.compile_tasks /\ adds' = s.adds
    /\ UNCHANGED <<link_tasks, executed_tasks, pc, snapshot, pass, evals, pass_list,
                   cacheVars, staleVars, storeVars, incrVars, astVars>>

\* the caller queues a link task before the build
AddLinkTask ==
    /\ pc = "idle"
    /\ Len(adds) < MaxAdds
    /\ \E task \in Addable :
          LET s == add_link_task(Ctx, task)
          IN  link_tasks' = s.link_tasks /\ adds' = s.adds
    /\ UNCHANGED <<compile_tasks, executed_tasks, pc, snapshot, pass, evals, pass_list,
                   cacheVars, staleVars, storeVars, incrVars, astVars>>

\* the build starts: run_tasks(compile_tasks) is entered
RunBuild ==
    /\ pc = "idle"
    /\ pc' = "compile"
    /\ UNCHANGED <<compile_tasks, link_tasks, executed_tasks, snapshot, pass, evals, adds,
                   pass_list, cacheVars, staleVars, storeVars, incrVars, astVars>>

\* run_tasks: the while test holds and the for loop takes its copy task_list[:]
BeginPass ==
    /\ pc \in {"compile", "link"}
    /\ snapshot = <<>>
    /\ loop_again(ListOf(Ctx, pc), pass)
    /\ snapshot' = ListOf(Ctx, pc)
    /\ pass_list' = ListOf(Ctx, pc)
    /\ pass' = pass + 1
    /\ UNCHANGED <<compile_tasks, link_tasks, executed_tasks, pc, evals, adds,
                   cacheVars, staleVars, storeVars, incrVars, astVars>>

\* run_tasks: one iteration of the for loop, run_task(task_list, task)
RunTask ==
    /\ pc \in {"compile", "link"}
    /\ snapshot # <<>>
    /\ \E outdated \in BOOLEAN, eff \in EffectsNow :
          LET task == Head(snapshot)
              x == run_task(Ctx, pc, task, outdated, eff)
          IN  /\ compile_tasks' = x.s.compile_tasks
              /\ link_tasks' = x.s.link_tasks
              /\ executed_tasks' = x.s.executed_tasks
              /\ _data' = x.s.data
              /\ last' = x.s.last
              /\ adds' = x.s.adds
              /\ evals' = Append(evals, [task |-> task, list |-> pc, pass |-> pass,
                                         outdated |-> outdated, ran |-> x.ran,
                                         ret |-> x.ret, raised |-> x.raised])
              /\ pc' = IF x.raised THEN "failed" ELSE pc
              /\ snapshot' = IF x.raised THEN <<>> ELSE for_next(snapshot, ListOf(x.s, pc))
    /\ UNCHANGED <<pass, pass_list, clock, staleVars, storeVars, incrVars, astVars>>

\* run_tasks: the while test fails and run_tasks returns to the build
ReturnRunTasks ==
    /\ pc \in {"compile", "link"}
    /\ snapshot = <<>>
    /\ ~loop_again(ListOf(Ctx, pc), pass)
    /\ pc' = next_phase(pc)
    /\ pass' = 0
    /\ UNCHANGED <<compile_tasks, link_tasks, executed_tasks, snapshot, evals, adds,
                   pass_list, cacheVars, staleVars, storeVars, incrVars, astVars>>

NextBuild == AddCompileTask \/ AddLinkTask \/ RunBuild \/ BeginPass \/ RunTask \/ ReturnRunTasks
SpecBuild == InitC /\ [][NextBuild]_vars

\* run_tasks is sequential code: once entered, its next step is taken
SpecBuildLive ==
    /\ InitC
    /\ [][NextBuild]_vars
    /\ WF_vars(BeginPass)
    /\ WF_vars(RunTask)
    /\ WF_vars(ReturnRunTasks)

\* ------------------------------------------------------------------ Task staleness
\* a comparison that lets equal timestamps count as outdated
is_outdated_timestamp_nonstrict(input, output) ==
    IF output = NoStamp THEN [raised |-> FALSE, ret |-> TRUE]
    ELSE IF input = NoStamp THEN [raised |-> TRUE, ret |-> FALSE]
    ELSE [raised |-> FALSE, ret |-> output[1] <= input[1]]

\* Task.is_outdated_timestamp: `output < input` raises TypeError when the output
\* timestamp is present and the input timestamp is None
is_outdated_timestamp(input, output) ==
    IF output = NoStamp THEN [raised |-> FALSE, ret |-> TRUE]
    ELSE IF input = NoStamp THEN [raised |-> TRUE, ret |-> FALSE]
    ELSE [raised |-> FALSE, ret |-> output[1] < input[1]]

\* the arguments of the call, any two optional timestamps
InitStaleArgs ==
    /\ input_timestamp \in Stamps
    /\ output_timestamp \in Stamps
    /\ stale = <<>>

\* a task calls is_outdated_timestamp(input_timestamp, output_timestamp)
CallIsOutdatedTimestamp ==
    /\ stale = <<>>
    /\ stale' = <<is_outdated_timestamp(input_timestamp, output_timestamp)>>
    /\ UNCHANGED <<input_timestamp, output_timestamp, cacheVars, buildVars, storeVars, incrVars, astVars>>

InitS == InitCache /\ InitBuild /\ InitStaleArgs /\ InitStore /\ InitAst
NextStale == CallIsOutdatedTimestamp
SpecStale == InitS /\ [][NextStale]_vars

\* C10: is_outdated_timestamp(input, output), called with an input timestamp, is
\* true iff the output timestamp is absent or strictly earlier than the input
\* timestamp; equal timestamps yield false.
C10_OutdatedIffAbsentOrEarlier ==
    (stale # <<>> /\ input_timestamp # NoStamp) =>
        /\ ~stale[1].raised
        /\ stale[1].ret <=>
              (output_timestamp = NoStamp \/ output_timestamp[1] < input_timestamp[1])
        /\ (output_timestamp = input_timestamp) => ~stale[1].ret

\* C10 witness: the call was made with equal timestamps and returned false.
C10_Witness ==
    /\ stale # <<>>
    /\ input_timestamp # NoStamp
    /\ output_timestamp = input_timestamp
    /\ stale[1] = [raised |-> FALSE, ret |-> FALSE]

\* ------------------------------------------------------------------ cache claims
\* the dict the latest set call wrote to
LastDict == IF last.op = "set_output" THEN _data.output ELSE _data.input
\* the key the latest set call wrote under
LastKey == IF last.op = "set_output" THEN last.name ELSE <<last.kind, last.name>>
LastWasSet == last.op \in {"set_output", "set_input"}
\* the latest set call found an entry under its key
LastHadEntry == LastWasSet /\ last.old # <<>>
\* the latest set call found no entry, or one with another payload
LastDiffers == LastWasSet /\ (last.old = <<>> \/ last.old[1][1] # last.value)

\* C1: a set_output/set_input whose value equals the payload stored under the key
\* returns false and leaves that entry (payload and timestamp) and every other
\* entry of both namespaces as they were.
C1_EqualWriteIsNoOp ==
    [][ /\ \A name \in Names, value \in Values :
              ( /\ last' = set_output(_data, name, value).call
                /\ _data' = set_output(_data, name, value).data
                /\ name \in DOMAIN _data.output
                /\ _data.output[name][1] = value )
              => (last'.ret = FALSE /\ _data' = _data)
        /\ \A key \in InputKeys, value \in Values :
              ( /\ last' = set_input(_data, key[1], key[2], value).call
                /\ _data' = set_input(_data, key[1], key[2], value).data
                /\ key \in DOMAIN _data.input
                /\ _data.input[key][1] = value )
              => (last'.ret = FALSE /\ _data' = _data) ]_vars

\* C1 witness: an equal value was written over an entry stored at an earlier
\* clock reading, and the entry still carries the earlier timestamp.
C1_Witness ==
    /\ LastHadEntry
    /\ last.old[1][1] = last.value
    /\ last.old[1][2] < clock
    /\ last.ret = FALSE
    /\ LastDict[LastKey] = last.old[1]

\* C2: a set on a key with no entry, or with an entry of another payload, stores
\* the value under the key and returns true, for every value, None included; a
\* false return happens only over an entry with an equal payload.
C2_DifferentWriteStores ==
    LastDiffers =>
        /\ last.ret = TRUE
        /\ LastKey \in DOMAIN LastDict
        /\ LastDict[LastKey][1] = last.value

\* C3: a write that replaces an entry by another payload leaves a timestamp
\* strictly greater than the one the entry had.
C3_TimestampStrictlyIncreases ==
    (LastHadEntry /\ last.old[1][1] # last.value) =>
        LastDict[LastKey][2] > last.old[1][2]

\* ------------------------------------------------------------------ build claims
Lists == {"compile", "link"}
\* the drain of the list has returned
Drained(list) == IF list = "compile" THEN pc \in {"link", "done"} ELSE pc = "done"
\* the Task.exec calls on task made while draining list, in pass p
EvalsOf(task, list) == {i \in DOMAIN evals : evals[i].task = task /\ evals[i].list = list}
EvalsIn(task, list, p) == {i \in EvalsOf(task, list) : evals[i].pass = p}
\* the add calls that put task on list while that list was drained, in pass p
AddsIn(task, list, p) ==
    {i \in DOMAIN adds : /\ adds[i].task = task /\ adds[i].list = list
                         /\ adds[i].phase = list /\ adds[i].pass = p}
\* the tasks of the exec calls that found the task outdated, in order
OutdatedEvals == SelectSeq(evals, LAMBDA e : e.outdated)
\* the step is one run_task call
IsRunTaskStep == Len(evals') = Len(evals) + 1
NewEval == evals'[Len(evals')]

\* C4: when a drain has returned, no task's run() was invoked more than once
\* during that drain.
C4_RunAtMostOnce ==
    \A list \in Lists, task \in Tasks :
        Drained(list) =>
            Cardinality({i \in EvalsOf(task, list) : evals[i].ran}) <= 1

\* C5: when run_tasks has returned, executed_tasks is the sequence of the tasks
\* whose is_outdated() was true when they were evaluated, in evaluation order, and
\* an evaluation that skipped a task added nothing to it.
C5_ExecutedAreTheOutdated ==
    pc \in {"link", "done"} =>
        /\ Len(executed_tasks) = Len(OutdatedEvals)
        /\ \A i \in DOMAIN executed_tasks : executed_tasks[i] = OutdatedEvals[i].task

\* C5 witness: a drain returned after one task was run and another was skipped.
C5_Witness ==
    /\ pc = "done"
    /\ executed_tasks # <<>>
    /\ \E i \in DOMAIN evals : ~evals[i].outdated
    /\ \E i \in DOMAIN evals : evals[i].outdated

\* C6: when the drain of a list has returned, every task that a run() appended
\* to that list during pass p of the drain was evaluated in the later pass p + 1,
\* and run exactly if it was outdated.
C6_AddedTasksAreEvaluated ==
    \A list \in Lists :
        Drained(list) =>
            \A task \in Tasks, p \in 1..MaxAdds :
                /\ Cardinality(EvalsIn(task, list, p + 1)) = Cardinality(AddsIn(task, list, p))
                /\ \A i \in EvalsIn(task, list, p + 1) : evals[i].ran = evals[i].outdated

\* C6 witness: a compile task appended a task to the compile list in pass 1 and
\* the drain returned after evaluating it in pass 2.
C6_Witness ==
    /\ Drained("compile")
    /\ \E task \in Tasks :
          /\ AddsIn(task, "compile", 1) # {}
          /\ EvalsIn(task, "compile", 2) # {}

\* C7: every run_task call that does not fail takes one occurrence of its task
\* off the live list, whether the task ran or was skipped, and nothing else; and
\* run_tasks returns only with the live list empty.
C7_RemovedAfterEvaluation ==
    [][ /\ (IsRunTaskStep /\ ~NewEval.raised) =>
              LET list == NewEval.list
                  before == ListOf(Ctx, list)
                  after == IF list = "compile" THEN compile_tasks' ELSE link_tasks'
                  appended(t) == Cardinality({i \in DOMAIN adds' : /\ i > Len(adds)
                                                                   /\ adds'[i].task = t
                                                                   /\ adds'[i].list = list})
              IN  \A t \in Tasks :
                      Count(after, t) = Count(before, t) + appended(t)
                                          - (IF t = NewEval.task THEN 1 ELSE 0)
        /\ (pc = "compile" /\ pc' # pc /\ pc' # "failed") => compile_tasks = <<>>
        /\ (pc = "link" /\ pc' # pc /\ pc' # "failed") => link_tasks = <<>> ]_vars

\* C7 witness: a skipped task has left the compile list and the drain returned.
C7_Witness ==
    /\ Drained("compile")
    /\ compile_tasks = <<>>
    /\ \E i \in DOMAIN evals : evals[i].list = "compile" /\ ~evals[i].ran

\* C8: a link task is evaluated only when every task put on the compile list
\* before or during the compile drain has been evaluated, and when the build
\* finishes every task put on the link list, also during the compile drain, has
\* been evaluated.
C8_CompileThenLink ==
    /\ (\E i \in DOMAIN evals : evals[i].list = "link") =>
          \A task \in Tasks :
              Cardinality(EvalsOf(task, "compile")) =
                  Cardinality({i \in DOMAIN adds : /\ adds[i].task = task
                                                   /\ adds[i].list = "compile"
                                                   /\ adds[i].phase \in {"idle", "compile"}})
    /\ pc = "done" =>
          \A task \in Tasks :
              Cardinality(EvalsOf(task, "link")) =
                  Cardinality({i \in DOMAIN adds : adds[i].task = task /\ adds[i].list = "link"})

\* C8 witness: the build finished, a link task added by a compile task was
\* evaluated, and a compile task had added a compile task of its own.
C8_Witness ==
    /\ pc = "done"
    /\ \E i \in DOMAIN adds : adds[i].list = "link" /\ adds[i].phase = "compile"
    /\ \E i \in DOMAIN adds : adds[i].list = "compile" /\ adds[i].phase = "compile"
    /\ \E i \in DOMAIN evals : evals[i].list = "link"

\* C9: Task.exec invokes run() exactly when is_outdated() is true and then
\* returns true; when is_outdated() is false it returns false and the cache
\* store, executed_tasks and both task lists are as before, up to the removal
\* run_task makes afterwards.
C9_ExecRunsIffOutdated ==
    [][ IsRunTaskStep =>
          /\ NewEval.ran = NewEval.outdated
          /\ ~NewEval.raised => (NewEval.ret = NewEval.outdated)
          /\ ~NewEval.outdated =>
                /\ ~NewEval.raised
                /\ _data' = _data
                /\ last' = last
                /\ executed_tasks' = executed_tasks
                /\ adds' = adds
                /\ compile_tasks' = IF NewEval.list = "compile"
                                    THEN list_remove(compile_tasks, NewEval.task)
                                    ELSE compile_tasks
                /\ link_tasks' = IF NewEval.list = "link"
                                 THEN list_remove(link_tasks, NewEval.task)
                                 ELSE link_tasks ]_vars

\* C9 witness: a task was skipped while the cache held an entry and another
\* task had been executed.
C9_Witness ==
    /\ evals # <<>>
    /\ ~evals[Len(evals)].outdated
    /\ ~evals[Len(evals)].ran
    /\ evals[Len(evals)].ret = FALSE
    /\ executed_tasks # <<>>
    /\ "doc1" \in DOMAIN _data.output

\* ------------------------------------------------------------------ build after build
\* the record a compile task makes of its source
compiled(name) == add_html([new_code(name) EXCEPT !.title = "T"], <<"h">>)

\* run() of a compile task does nothing to the task lists
CompileEffect == [kind |-> "none", task |-> 1, value |-> None]

\* the source file is written; its modification time is the time of the write
WriteSource ==
    /\ pc = "idle"
    /\ input_timestamp' = <<clock>>
    /\ UNCHANGED <<output_timestamp, stale, cacheVars, buildVars, storeVars, incrVars, astVars>>

\* the driver queues the compile task of the source file
AddDocTask ==
    /\ input_timestamp # NoStamp
    /\ compile_tasks = <<>>
    /\ AddCompileTask

\* the build starts: run_tasks(compile_tasks) is entered; builds notes the
\* source's timestamp and whether it is newer than the build output
StartBuild ==
    /\ pc = "idle"
    /\ compile_tasks # <<>>
    /\ Len(builds) < MaxBuilds
    /\ pc' = "compile"
    /\ builds' = Append(builds,
          [src |-> input_timestamp,
           newer |-> output_timestamp = NoStamp \/ output_timestamp[1] < input_timestamp[1],
           executed |-> 0, done |-> FALSE])
    /\ UNCHANGED <<compile_tasks, link_tasks, executed_tasks, snapshot, pass, evals, adds,
                   pass_list, cacheVars, staleVars, storeVars, astVars>>

\* exec of the compile task: is_outdated() applies the timestamp rule to the
\* source and build timestamps; when outdated, run() makes the record
CheckOutdated ==
    /\ pc = "compile"
    /\ snapshot # <<>>
    /\ stale = <<>>
    /\ LET o == is_outdated_timestamp(input_timestamp, output_timestamp)
       IN  /\ stale' = <<o>>
           /\ code' = IF ~o.raised /\ o.ret THEN compiled(code.name) ELSE code
    /\ UNCHANGED <<input_timestamp, output_timestamp, file, op, saved, cacheVars, buildVars,
                   incrVars, astVars>>

\* run_task for the compile task: when outdated, run() writes the build output
\* and flushes the record into the context's cache; then the append and the
\* remove of run_task
RunCompileTask ==
    /\ pc = "compile"
    /\ snapshot # <<>>
    /\ stale # <<>>
    /\ LET task == Head(snapshot)
           o == stale[1]
           x == IF o.raised
                THEN [raised |-> TRUE, ret |-> FALSE, ran |-> FALSE, s |-> Ctx]
                ELSE run_task(Ctx, pc, task, o.ret, CompileEffect)
           r == write_cache(_data, code)
       IN  /\ compile_tasks' = x.s.compile_tasks
           /\ link_tasks' = x.s.link_tasks
           /\ executed_tasks' = x.s.executed_tasks
           /\ _data' = IF x.ran THEN r.data ELSE _data
           /\ last' = IF x.ran THEN r.call ELSE last
           /\ adds' = x.s.adds
           /\ evals' = Append(evals, [task |-> task, list |-> pc, pass |-> pass,
                                      outdated |-> ~o.raised /\ o.ret, ran |-> x.ran,
                                      ret |-> x.ret, raised |-> x.raised])
           /\ pc' = IF x.raised THEN "failed" ELSE pc
           /\ snapshot' = IF x.raised THEN <<>> ELSE for_next(snapshot, ListOf(x.s, pc))
           /\ output_timestamp' = IF x.ran /\ ~x.raised THEN <<now>> ELSE output_timestamp
    /\ stale' = <<>>
    /\ UNCHANGED <<pass, pass_list, clock, input_timestamp, storeVars, incrVars, astVars>>

\* the driver saves the cache after both lists are drained; builds notes how
\* many tasks the build executed
SaveBuild ==
    /\ pc = "done"
    /\ file' = save(_data)
    /\ saved' = <<View(_data)>>
    /\ builds' = [builds EXCEPT ![Len(builds)] =
                     [@ EXCEPT !.executed = Len(executed_tasks), !.done = TRUE]]
    /\ pc' = "saved"
    /\ UNCHANGED <<compile_tasks, link_tasks, executed_tasks, snapshot, pass, evals, adds,
                   pass_list, code, op, cacheVars, staleVars, astVars>>

\* the next invocation: BuildContext.__init__ makes empty lists and a store
\* loaded from the cache file
NewContext ==
    /\ pc = "saved"
    /\ compile_tasks' = <<>>
    /\ link_tasks' = <<>>
    /\ executed_tasks' = <<>>
    /\ _data' = cache_file_init(_data, file).data
    /\ pc' = "idle"
    /\ evals' = <<>>
    /\ adds' = <<>>
    /\ UNCHANGED <<snapshot, pass, pass_list, clock, last, staleVars, storeVars, incrVars, astVars>>

NextIncr ==
    \/ WriteSource \/ Tick \/ AddDocTask \/ StartBuild \/ BeginPass \/ CheckOutdated
    \/ RunCompileTask \/ ReturnRunTasks \/ SaveBuild \/ NewContext
SpecIncr == InitC /\ [][NextIncr]_vars

\* ------------------------------------------------------------------ AstNode, AstDoc
\* names and payloads of the nodes a parser appends
Labels == {"h1", "p"}
Payloads == {"A", "B"}

\* AstNode(name, data): children is None, which iter reads as no children
new_node(name, data) == [name |-> name, data |-> data, children |-> <<>>]

\* parent.append_child(child) for a new child: the tree with the child as the
\* last of the parent's children
append_child(t, parent, child) ==
    [Append(t, child) EXCEPT ![parent].children = Append(@, Len(t) + 1)]

RECURSIVE iter(_, _, _)
RECURSIVE iter_children(_, _, _)

\* a loop over the children last to first
iter_children_reversed(t, cs, depth) ==
    IF cs = <<>> THEN <<>>
    ELSE iter(t, cs[Len(cs)], depth) \o iter_children(t, SubSeq(cs, 1, Len(cs) - 1), depth)

\* `for child in self.children or []`: what each child's iter(depth) yields, in
\* the order of the list
iter_children(t, cs, depth) ==
    IF cs = <<>> THEN <<>>
    ELSE iter(t, Head(cs), depth) \o iter_children(t, Tail(cs), depth)

\* AstNode.iter(depth) of node n: the pairs (depth, node) it yields
iter(t, n, depth) == << <<depth, n>> >> \o iter_children(t, t[n].children, depth + 1)

\* find_first(iterable, predicate): the first item the predicate holds for, as
\* a one-element sequence, or none; the predicate is given as a function
find_first(items, pred) ==
    LET hits == SelectSeq(items, LAMBDA x : pred[x])
    IN  IF hits = <<>> THEN <<>> ELSE <<Head(hits)>>

\* AstDoc.title()
title(t) ==
    LET items == iter(t, 1, 0)
        h1 == find_first(items, [x \in {items[i] : i \in DOMAIN items} |-> t[x[2]].name = "h1"])
    IN  IF h1 # <<>> THEN t[h1[1][2]].data ELSE "Untitled"

\* the parser appends a new node to a node of the tree
AppendChild ==
    /\ Len(nodes) < MaxNodes
    /\ \E parent \in DOMAIN nodes, name \in Labels, data \in Payloads :
          nodes' = append_child(nodes, parent, new_node(name, data))
    /\ title_ret' = <<>>
    /\ UNCHANGED <<cacheVars, buildVars, staleVars, storeVars, incrVars>>

\* a caller asks for the document's title
CallTitle ==
    /\ title_ret = <<>>
    /\ title_ret' = <<title(nodes)>>
    /\ UNCHANGED <<nodes, cacheVars, buildVars, staleVars, storeVars, incrVars>>

NextAst == AppendChild \/ CallTitle
SpecAst == InitC /\ [][NextAst]_vars

\* ------------------------------------------------------------------ later claims
\* C11: is_outdated_timestamp returns a boolean, and does not raise, for every
\* combination of present and absent input and output timestamps.
C11_StalenessNeverRaises ==
    stale # <<>> => ~stale[1].raised

\* the tasks of the exec calls whose run() returned, in order
CompletedEvals == SelectSeq(evals, LAMBDA e : e.ran /\ ~e.raised)

\* C14: a run() that fails ends the drain at once: the failed state is never
\* left and nothing is evaluated in it, the failing call adds nothing to
\* executed_tasks, which holds the tasks whose run() returned before, and the
\* cache store keeps what the earlier tasks wrote.
C14_FailureAbortsDrain ==
    [][ /\ (IsRunTaskStep /\ NewEval.raised) =>
              /\ pc' = "failed"
              /\ executed_tasks' = executed_tasks
              /\ _data' = _data
        /\ pc' = "failed" =>
              /\ evals'[Len(evals')].raised
              /\ \A i \in 1..(Len(evals') - 1) : ~evals'[i].raised
              /\ Len(executed_tasks') = Len(CompletedEvals')
              /\ \A i \in DOMAIN executed_tasks' : executed_tasks'[i] = CompletedEvals'[i].task
        /\ pc = "failed" => UNCHANGED vars ]_vars

\* C14 witness: a task failed after an earlier task had run and written a cache
\* entry, with a task still waiting on the list.
C14_Witness ==
    /\ pc = "failed"
    /\ executed_tasks # <<>>
    /\ "doc1" \in DOMAIN _data.output
    /\ compile_tasks \o link_tasks # <<>>
    /\ Len(compile_tasks) >= 2

\* the tasks evaluated so far in the current pass of the current drain, in order
EvaluatedThisPass ==
    LET es == SelectSeq(evals, LAMBDA e : e.list = pc /\ e.pass = pass)
    IN  [i \in DOMAIN es |-> es[i].task]

\* C18: within a pass the tasks are evaluated in the order the list had when the
\* pass began: what has been evaluated in the pass, followed by what the pass
\* still has to visit, is that list, whatever was appended meanwhile; so a task
\* appended during the pass is evaluated only in a later pass.
C18_PassFollowsListOrder ==
    (pc \in {"compile", "link"} /\ pass > 0) =>
        EvaluatedThisPass \o snapshot = pass_list

\* C18 witness: in a pass over two different tasks, the first appended a task to
\* the list being drained, and the second has been evaluated after it.
C18_Witness ==
    /\ pc = "compile"
    /\ pass = 1
    /\ Len(pass_list) = 2
    /\ pass_list[1] # pass_list[2]
    /\ Len(EvaluatedThisPass) = 2
    /\ \E i \in DOMAIN adds : adds[i].list = "compile" /\ adds[i].phase = "compile"
    /\ compile_tasks # <<>>

\* the add calls that put task on list before the drain of list returned
AddsBeforeReturn(task, list) ==
    {i \in DOMAIN adds : /\ adds[i].task = task /\ adds[i].list = list
                         /\ (list = "compile" => adds[i].phase \in {"idle", "compile"})}

\* C19: with finitely many tasks added (at most MaxAdds), a drain that has begun
\* ends: run_tasks returns or a task fails; and when it returns every task that
\* was put on the list before has been evaluated.
C19_DrainTerminates ==
    /\ (pc = "compile") ~> (pc \in {"link", "done", "failed"})
    /\ (pc = "link") ~> (pc \in {"done", "failed"})
    /\ [](\A list \in Lists :
              Drained(list) =>
                  \A task \in Tasks :
                      Cardinality(EvalsOf(task, list)) = Cardinality(AddsBeforeReturn(task, list)))

\* C19 witness: a build ended after a second pass over the compile list, with a
\* task skipped on the way.
C19_Witness ==
    /\ pc = "done"
    /\ \E i \in DOMAIN evals : evals[i].list = "compile" /\ evals[i].pass = 2
    /\ \E i \in DOMAIN evals : ~evals[i].outdated
    /\ \A i \in DOMAIN evals : ~evals[i].raised


\* the latest call was a write_cache that returned
Flushed == op.name = "write_cache" /\ op.raised = "none"

\* C12: after a record is flushed into a store, get_output(name) yields the
\* record's dependency set and get_input of 'doc', 'title', 'toctree' yield its
\* html, title and toctree, so that get_doc, get_title and get_toctree succeed;
\* also for an empty store and a record whose title was never set.
C12_FlushedRecordIsReadable ==
    Flushed =>
        /\ ~get_output(_data, code.name).raised
        /\ Deref(get_output(_data, code.name).entry[1]) = set_repr(code.dependencies)
        /\ ~get_doc(_data, code.name).raised
        /\ Deref(get_doc(_data, code.name).value) = list_repr(code.html)
        /\ ~get_title(_data, code.name).raised
        /\ get_title(_data, code.name).value = code.title
        /\ ~get_toctree(_data, code.name).raised
        /\ Deref(get_toctree(_data, code.name).value) = list_repr(code.toctree)

\* the latest call read the cache file: load(), or the constructor on a file
\* that exists
Loaded == (op.name = "load" \/ op.name = "init") /\ file.kind # "none"

\* C13: after save(), a load() into a fresh store bound to the same path gives
\* a store whose namespaces, payloads and timestamps equal those of the store
\* that was saved.
C13_SaveLoadRoundTrip ==
    (Loaded /\ saved # <<>>) =>
        /\ op.raised = "none"
        /\ View(_data) = saved[1]

\* C13 witness: a fresh store was loaded from a file written by save() that
\* held a dependency set of tuples and a list, written at a later clock value.
C13_Witness ==
    /\ op.name = "init"
    /\ saved # <<>>
    /\ "doc1" \in DOMAIN _data.output
    /\ _data.output["doc1"] = <<set_repr(Deps), MaxClock>>
    /\ <<"doc", "doc1">> \in DOMAIN _data.input

\* the file holds the pickle of a mapping with the two namespaces
FileShaped == file.kind = "pickle" /\ DOMAIN file.obj = {"output", "input"}

\* C15: load() fails with a corrupt-cache error when the file's content is not
\* a two-namespace mapping, and the store never gets another shape.
C15_LoadRejectsCorruptCache ==
    /\ Shaped(_data)
    /\ (Loaded /\ ~FileShaped) => op.raised = "CorruptCacheError"

\* C20: the cache entries change only in set_output and set_input: a call that
\* changes the record leaves the payloads and timestamps of the store as they
\* were.
C20_OnlySetCallsChangeEntries ==
    [][code' # code => View(_data)' = View(_data)]_vars


\* C16: with a compile task that applies the timestamp rule to its source and
\* build timestamps and whose run() writes the build output and flushes its
\* record, a build that finds the source newer than any build output executes
\* exactly that one task, and a build that follows another with the source
\* unchanged executes no task.
C16_SecondBuildRunsNothing ==
    \A i \in DOMAIN builds :
        builds[i].done =>
            /\ builds[i].newer => builds[i].executed = 1
            /\ (i > 1 /\ builds[i].src = builds[i - 1].src) => builds[i].executed = 0

\* C16 witness: a first build found the source newer and executed the task, its
\* build output got the source's own timestamp, and a second build on the
\* unchanged source has finished.
C16_Witness ==
    /\ Len(builds) = 2
    /\ builds[1].newer /\ builds[1].executed = 1
    /\ builds[2].done /\ builds[2].src = builds[1].src
    /\ output_timestamp = input_timestamp
    /\ <<"doc", "doc1">> \in DOMAIN _data.input


\* the node whose child n is
ParentOf(n) == CHOOSE p \in DOMAIN nodes : \E i \in DOMAIN nodes[p].children : nodes[p].children[i] = n

\* the place of n among its parent's children
PlaceOf(n) == CHOOSE i \in DOMAIN nodes[ParentOf(n)].children : nodes[ParentOf(n)].children[i] = n

\* the places to follow from the root down to n
RECURSIVE PathTo(_)
PathTo(n) == IF n = 1 THEN <<>> ELSE Append(PathTo(ParentOf(n)), PlaceOf(n))

\* a comes before b depth first, parents before children and children in
\* insertion order: a is an ancestor of b, or where their paths part a's side
\* was appended earlier
Before(a, b) ==
    LET pa == PathTo(a)
        pb == PathTo(b)
    IN  \/ Len(pa) < Len(pb) /\ SubSeq(pb, 1, Len(pa)) = pa
        \/ \E k \in DOMAIN pa \cap DOMAIN pb :
              /\ SubSeq(pa, 1, k - 1) = SubSeq(pb, 1, k - 1)
              /\ pa[k] < pb[k]

\* the h1 nodes of the tree
H1Nodes == {n \in DOMAIN nodes : nodes[n].name = "h1"}

\* C17: title() returns the payload of the h1 node that comes before every
\* other h1 node in depth-first order, parent before children and children in
\* insertion order, and "Untitled" when the tree has no h1 node.
C17_TitleIsFirstH1 ==
    title_ret # <<>> =>
        IF H1Nodes = {}
        THEN title_ret[1] = "Untitled"
        ELSE \E n \in H1Nodes :
                /\ \A m \in H1Nodes \ {n} : Before(n, m)
                /\ title_ret[1] = nodes[n].data

\* C17 witness: title() was called on a tree where the first h1 node depth
\* first was appended after another h1 node with a different payload.
C17_Witness ==
    /\ title_ret # <<>>
    /\ \E a \in H1Nodes, b \in H1Nodes :
          /\ a < b
          /\ Before(b, a)
          /\ nodes[a].data # nodes[b].data
          /\ title_ret[1] = nodes[b].data

====
